---- MODULE Spec2Model ----
(***************************************************************************)
(* Model of ghostinthemini's scheduling pipeline                           *)
(* (src/src/ghostinthemini/scheduler.py): validate_llm_result and          *)
(* schedule_task, with the calendar gateway (get_schedule, create_event)   *)
(* and the model gateway (chain.invoke) as the environment; and of its     *)
(* front ends: the Slack app of slack_bot.py (authorize_user, handle_dm,   *)
(* handle_mention) and the command line of scheduler.py.                   *)
(***************************************************************************)
EXTENDS Integers, Sequences, FiniteSets, TLC

(***************************************************************************)
(* Bounds of the model.                                                    *)
(***************************************************************************)
\* longest calendar listing get_schedule returns
MaxEvents == 2
\* timestamps the model may propose are 2026-02-10T08:00 + 0..MaxHour hours
MaxHour == 1
\* schedule_task runs in flight at the same time
MaxRuns == 2

(***************************************************************************)
(* Configuration (config.py) and defaults of schedule_task.                *)
(***************************************************************************)
MODEL == "qwen3-coder:30b-a3b-q4_K_M"
DefaultDuration == 60
DefaultDaysAhead == 7

REQUIRED_KEYS == {"summary", "start", "end"}

(***************************************************************************)
(* Exceptions.  An exception is a record: its Python type, its message     *)
(* (kind = the fixed text of the message, info = the values formatted into *)
(* it) and its __cause__ (set by "raise ... from exc").                    *)
(***************************************************************************)
NoExc == [type |-> "none"]

NoInfo == [none |-> TRUE]

External(type) ==
    [type |-> type, kind |-> "external", info |-> NoInfo, cause |-> NoExc]

SchedulingError(kind, info, cause) ==
    [type |-> "SchedulingError", kind |-> kind, info |-> info, cause |-> cause]

\* the message texts of the SchedulingErrors raised in scheduler.py
MsgCalendarRead     == "Failed to fetch your calendar. Is your Google token valid?"
MsgLLMFailed        == "LLM call failed. Is Ollama running with the '{MODEL}' model pulled?"
MsgMissingKeys      == "LLM response missing required key(s): {keys}. Got: {result}"
MsgInvalidDatetime  == "LLM returned an invalid datetime for '{key}': {value!r}"
MsgEndNotAfterStart == "LLM returned an end time ({end}) that is not after the start time ({start})"
MsgCalendarRejected == "Google Calendar rejected the event. Check the start/end times."

(***************************************************************************)
(* JSON values the model can put in its reply.  A value is a record: its   *)
(* Python type and its text.  A string that is an ISO-8601 date-time is    *)
(* described by its wall-clock hour, whether it carries a UTC offset (and  *)
(* which), and its spelling (text): "sec" is YYYY-MM-DDTHH:MM:SS, "min" is *)
(* YYYY-MM-DDTHH:MM (both parse to the same datetime).                     *)
(***************************************************************************)
IsoStr(hour, aware, off, text) ==
    [py |-> "str", iso |-> TRUE, hour |-> hour, aware |-> aware,
     off |-> off, text |-> text]

\* a string that is no date-time
Text(text) ==
    [py |-> "str", iso |-> FALSE, hour |-> 0, aware |-> FALSE,
     off |-> 0, text |-> text]

BadStr == Text("not-a-date")
\* JSON null
JsonNull == [py |-> "NoneType", iso |-> FALSE, hour |-> 0, aware |-> FALSE,
             off |-> 0, text |-> "None"]
\* a JSON number
JsonNum == [py |-> "int", iso |-> FALSE, hour |-> 0, aware |-> FALSE,
            off |-> 0, text |-> "42"]

Hours == 0..MaxHour
Offsets == {0, 1}

IsoStrings ==
    {IsoStr(h, FALSE, 0, f) : h \in Hours, f \in {"sec", "min"}}
    \cup {IsoStr(h, TRUE, o, "sec") : h \in Hours, o \in Offsets}

RawValues == IsoStrings \cup {BadStr, JsonNull, JsonNum}

(***************************************************************************)
(* datetime.datetime.fromisoformat: TypeError for a non-string, ValueError *)
(* for a string that is not ISO-8601, otherwise a datetime (the spelling   *)
(* of the string is not part of the datetime).                             *)
(***************************************************************************)
\* a plausible slip: strptime with the prompt's format YYYY-MM-DDTHH:MM:SS
strptimeFixed(value) ==
    IF value.py # "str" THEN [err |-> "TypeError", hour |-> 0, aware |-> FALSE, off |-> 0]
    ELSE IF ~value.iso \/ value.aware \/ value.text # "sec"
         THEN [err |-> "ValueError", hour |-> 0, aware |-> FALSE, off |-> 0]
    ELSE [err |-> "none", hour |-> value.hour, aware |-> value.aware, off |-> value.off]

fromisoformat(value) ==
    IF value.py # "str" THEN [err |-> "TypeError", hour |-> 0, aware |-> FALSE, off |-> 0]
    ELSE IF ~value.iso THEN [err |-> "ValueError", hour |-> 0, aware |-> FALSE, off |-> 0]
    ELSE [err |-> "none", hour |-> value.hour, aware |-> value.aware, off |-> value.off]

\* a plausible slip: "<" for "<=" (an event of no duration is accepted)
DatetimeLt(a, b) ==
    IF a.aware # b.aware THEN "TypeError"
    ELSE IF (a.hour - a.off) < (b.hour - b.off) THEN "true" ELSE "false"

\* datetime.__le__: "TypeError" when one operand is offset-aware and the
\* other is naive; aware datetimes compare as UTC instants.
DatetimeLe(a, b) ==
    IF a.aware # b.aware THEN "TypeError"
    ELSE IF (a.hour - a.off) <= (b.hour - b.off) THEN "true" ELSE "false"

(***************************************************************************)
(* Python str ordering (by code point) on the required keys, and sorted(). *)
(***************************************************************************)
CodePoints ==
    [end     |-> <<101, 110, 100>>,
     start   |-> <<115, 116, 97, 114, 116>>,
     summary |-> <<115, 117, 109, 109, 97, 114, 121>>]

RECURSIVE SeqLess(_, _)
SeqLess(s, t) ==
    IF t = <<>> THEN FALSE
    ELSE IF s = <<>> THEN TRUE
    ELSE IF Head(s) # Head(t) THEN Head(s) < Head(t)
    ELSE SeqLess(Tail(s), Tail(t))

StrLess(a, b) == SeqLess(CodePoints[a], CodePoints[b])

\* a plausible slip: the keys in the order REQUIRED_KEYS is written
Unsorted(S) ==
    SelectSeq(<<"summary", "start", "end">>, LAMBDA k : k \in S)

RECURSIVE Sorted(_)
Sorted(S) ==
    IF S = {} THEN <<>>
    ELSE LET m == CHOOSE x \in S : \A y \in S \ {x} : StrLess(x, y)
         IN  <<m>> \o Sorted(S \ {m})

(***************************************************************************)
(* Replies of the model gateway (JsonOutputParser output).  A JSON object  *)
(* is [py |-> "dict", d |-> function from its keys to values]; any other   *)
(* JSON value (array, string) has no keys.                                 *)
(***************************************************************************)
Summaries == {Text("Write docs")}
Reasonings == {Text("afternoon free")}
\* a field the prompt does not ask for
Locations == {Text("Room 1")}
OptionalKeys == {"reasoning", "location"}

ValuesOf(k) ==
    CASE k = "summary"   -> Summaries
      [] k = "start"     -> RawValues
      [] k = "end"       -> RawValues
      [] k = "reasoning" -> Reasonings
      [] k = "location"  -> Locations

Dicts ==
    UNION { {f \in [K -> UNION {ValuesOf(k) : k \in K}] :
                \A k \in K : f[k] \in ValuesOf(k)}
            : K \in SUBSET (REQUIRED_KEYS \cup OptionalKeys) }

Dict(d) == [py |-> "dict", d |-> d]
JsonList == [py |-> "list", d |-> <<>>]
JsonStr  == [py |-> "str", d |-> <<>>]

ModelReplies == {Dict(d) : d \in Dicts} \cup {JsonList, JsonStr}

NoResult == [py |-> "unset", d |-> <<>>]

\* dict.get(key, default)
Get(result, key, default) ==
    IF key \in DOMAIN result.d THEN result.d[key] ELSE default


(***************************************************************************)
(* validate_llm_result(result): the exception it raises, NoExc when it     *)
(* returns.  A reply that is not a dict has no .keys(): AttributeError.    *)
(* The datetime comparison of a naive and an aware datetime raises         *)
(* TypeError, outside the try block of the parsing loop.                   *)
(***************************************************************************)
\* a plausible slip: the missing keys are joined without sorted()
MissingKeysUnsorted(result) == Unsorted(REQUIRED_KEYS \ DOMAIN result.d)

\* sorted(missing)
MissingKeys(result) == Sorted(REQUIRED_KEYS \ DOMAIN result.d)

\* a plausible slip: the loop over ("start", "end") checks "end" first
InvalidKeyEndFirst(result) ==
    IF fromisoformat(result.d["end"]).err # "none" THEN "end"
    ELSE IF fromisoformat(result.d["start"]).err # "none" THEN "start"
    ELSE "none"

\* the first key of ("start", "end") whose value fromisoformat rejects
InvalidKey(result) ==
    IF fromisoformat(result.d["start"]).err # "none" THEN "start"
    ELSE IF fromisoformat(result.d["end"]).err # "none" THEN "end"
    ELSE "none"

validate_llm_result(result) ==
    IF result.py # "dict" THEN External("AttributeError")
    ELSE IF REQUIRED_KEYS \ DOMAIN result.d # {} THEN
        SchedulingError(MsgMissingKeys,
                        [keys |-> MissingKeys(result), got |-> result],
                        NoExc)
    ELSE IF InvalidKey(result) # "none" THEN
        LET key == InvalidKey(result)
            value == result.d[key]
        IN  SchedulingError(MsgInvalidDatetime,
                            [key |-> key, value |-> value],
                            External(fromisoformat(value).err))
    ELSE
        LET start_dt == fromisoformat(result.d["start"])
            end_dt   == fromisoformat(result.d["end"])
            le       == DatetimeLe(end_dt, start_dt)
        IN  IF le = "TypeError" THEN External("TypeError")
            ELSE IF le = "true" THEN
                SchedulingError(MsgEndNotAfterStart,
                                [end |-> result.d["end"], start |-> result.d["start"]],
                                NoExc)
            ELSE NoExc

(***************************************************************************)
(* The calendar gateway's listings and the rendering of the schedule.      *)
(***************************************************************************)
Event1 == [summary |-> "Meeting", start |-> "2026-02-10T08:00:00-08:00",
           end |-> "2026-02-10T09:00:00-08:00", description |-> ""]
Event2 == [summary |-> "(No title)", start |-> "2026-02-10T12:00:00-08:00",
           end |-> "2026-02-10T13:00:00-08:00", description |-> "lunch"]

\* position of an event in the listing order (orderBy="startTime")
StartRank(e) == IF e = Event1 THEN 1 ELSE 2

Schedules ==
    UNION { {s \in [1..n -> {Event1, Event2}] :
                \A i \in 1..n, j \in 1..n :
                    i < j => StartRank(s[i]) <= StartRank(s[j])}
            : n \in 0..MaxEvents }

FormatLine(e) == <<"  - ", e.summary, ": ", e.start, " → ", e.end>>

\* a plausible slip: the join alone, "" for an empty schedule
FormatScheduleJoinOnly(schedule) ==
    [i \in 1..Len(schedule) |-> FormatLine(schedule[i])]

\* schedule_text: the lines joined by "\n" (a sequence of lines)
FormatSchedule(schedule) ==
    IF schedule # <<>> THEN [i \in 1..Len(schedule) |-> FormatLine(schedule[i])]
    ELSE << <<"  (No events scheduled)">> >>

(***************************************************************************)
(* Outcomes of the external calls.                                         *)
(***************************************************************************)
\* get_schedule: no credentials in keyring (RuntimeError), API error
FetchErrors == {External("RuntimeError"), External("HttpError")}
\* chain.invoke: Ollama unreachable, reply that is not JSON
InvokeErrors == {External("ConnectionError"), External("OutputParserException")}
\* create_event: API error, or a SchedulingError raised inside the call
CreateErrors ==
    {External("HttpError"),
     SchedulingError("raised inside create_event", NoInfo, NoExc)}
\* the created event resource, with or without htmlLink
CreatedEvents ==
    {[htmlLink |-> "https://calendar.google.com/event/xyz"], [id |-> "xyz"]}

NoEvent == [unset |-> TRUE]

Tasks == {"write docs"}
DaysAheadValues == {DefaultDaysAhead, 0}

\* the day of datetime.now(TIMEZONE); times of the window are in days
NowDay == 0

(***************************************************************************)
(* State of one schedule_task invocation after another.                    *)
(***************************************************************************)
VARIABLES
    pc,                \* position in schedule_task
    task_description,  \* arguments of the invocation
    days_ahead,
    current_schedule,  \* locals of schedule_task
    result,
    created_event,
    raised,            \* the exception that left schedule_task, or NoExc
    returned,          \* [done |-> TRUE, value |-> ...] once it has returned
    printed,           \* lines printed by the invocation
    calls,             \* external calls of the invocation, in order
    validated,         \* calls of validate_llm_result: argument and outcome
    caller,            \* who called schedule_task
    allowed_users,     \* the allowlist create_app loaded
    event,             \* the Slack payload being handled
    fpc,               \* position of the front end
    nextCalls,         \* calls of next() by authorize_user for this payload
    warnings,          \* logger.warning calls for this payload
    said,              \* say() messages for this payload, in order
    propagated,        \* the exception that left the handler / the command line
    keyring,           \* the entries of the system keyring, shared by all runs
    run,               \* the locals of each concurrently handled run
    conflicts,         \* accesses of one run to an entry another run wrote
    secrets,           \* the Slack entries of the system keyring
    app                \* the create_app call: its locals and what it built

frontVars == <<caller, allowed_users, event, fpc, nextCalls, warnings, said,
               propagated>>

runVars == <<pc, task_description, days_ahead, current_schedule, result,
             created_event, raised, returned, printed, calls, validated>>

concVars == <<keyring, run, conflicts>>

appVars == <<secrets, app>>

vars == <<runVars, frontVars, concVars, appVars>>

NotReturned == [done |-> FALSE, value |-> NoResult]

(***************************************************************************)
(* Slack payloads.  A text is a sequence of pieces: SP is white space,     *)
(* MENTION followed by GT is the bot mention "<@U0BOT>".                   *)
(***************************************************************************)
SP == " "
MENTION == "<@U0BOT"
GT == ">"

Texts ==
    { <<"write docs">>,
      <<MENTION, GT, SP, "write docs">>,
      <<SP, "write docs", SP>>,
      <<"lunch", SP, MENTION, GT, SP, "tomorrow">>,
      <<MENTION, GT>>,
      <<>> }

\* event.get("user") of an event without "user"
NoUser == ""
\* U9 is not on the allowlist
Senders == {"U1", "U9", NoUser}
AllowedUsers == {"U1", "U2"}

\* a body without "event" (a non-event payload)
NonEvent ==
    [payload |-> "other", type |-> "", user |-> NoUser, text |-> <<>>,
     bot_id |-> FALSE, subtype |-> FALSE]

Events ==
    [payload : {"event"}, type : {"message", "app_mention"}, user : Senders,
     text : Texts, bot_id : BOOLEAN, subtype : BOOLEAN]

Payloads == Events \cup {NonEvent}

\* str.strip()
RECURSIVE LStrip(_)
LStrip(s) == IF s # <<>> /\ Head(s) = SP THEN LStrip(Tail(s)) ELSE s

RECURSIVE RStrip(_)
RStrip(s) ==
    IF s # <<>> /\ s[Len(s)] = SP THEN RStrip(SubSeq(s, 1, Len(s) - 1)) ELSE s

Strip(s) == RStrip(LStrip(s))

\* raw.split(">", 1)
SplitGt(s) ==
    IF \E i \in 1..Len(s) : s[i] = GT
    THEN LET i == CHOOSE k \in 1..Len(s) :
                     s[k] = GT /\ \A j \in 1..(k - 1) : s[j] # GT
         IN  <<SubSeq(s, 1, i - 1), SubSeq(s, i + 1, Len(s))>>
    ELSE <<s>>

\* the str a sequence of pieces spells
RECURSIVE Join(_)
Join(s) == IF s = <<>> THEN "" ELSE Head(s) \o Join(Tail(s))

\* handle_dm: text = (event.get("text") or "").strip()
DmText(e) == Strip(e.text)

\* handle_mention: the text after the first ">"
MentionText(e) ==
    LET raw == Strip(e.text)
        parts == SplitGt(raw)
    IN  IF Len(parts) > 1 THEN Strip(parts[2]) ELSE raw

(***************************************************************************)
(* The gateways' outcomes while a front end runs the pipeline (a few of    *)
(* each kind), and all of them for a direct call of schedule_task.         *)
(***************************************************************************)
FrontSchedules == {<<>>, <<Event1>>}

FrontReplies ==
    { Dict([summary |-> Text("Write docs"),
            start |-> IsoStr(0, FALSE, 0, "sec"),
            end |-> IsoStr(1, FALSE, 0, "sec"),
            reasoning |-> Text("afternoon free")]),
      Dict([summary |-> Text("Write docs"),
            start |-> IsoStr(0, FALSE, 0, "sec"),
            end |-> IsoStr(1, FALSE, 0, "sec")]),
      Dict([summary |-> Text("Write docs")]),
      Dict([summary |-> Text("Write docs"),
            start |-> IsoStr(0, TRUE, 0, "sec"),
            end |-> IsoStr(1, FALSE, 0, "sec")]),
      JsonList }

SchedulesNow == IF caller = "direct" THEN Schedules ELSE FrontSchedules
RepliesNow == IF caller = "direct" THEN ModelReplies ELSE FrontReplies

(***************************************************************************)
(* Runs handled at the same time.  Slack Bolt hands each incoming message  *)
(* to its listener on a worker thread, so several schedule_task runs are   *)
(* in flight at once; each has its own locals, all use the one keyring.    *)
(***************************************************************************)
Runs == 1..MaxRuns

KEYRING_TOKEN_KEY == "google_oauth_token"
KEYRING_CREDENTIALS_KEY == "google_client_credentials"
KeyringKeys == {KEYRING_TOKEN_KEY, KEYRING_CREDENTIALS_KEY}

\* writer 0: the entry was stored before any of the runs started
Stored == 0
Entry(value, writer) == [value |-> value, writer |-> writer]

\* the token entry: none stored, a stale one (not valid and not refreshable:
\* no refresh token), an expired one with a refresh token, a valid one; the client credentials entry: none stored or present
TokenValues == {"none", "stale", "expired", "valid"}
ClientValues == {"none", "present"}

Keyrings ==
    { [k \in KeyringKeys |->
          IF k = KEYRING_TOKEN_KEY THEN Entry(t, Stored) ELSE Entry(c, Stored)]
      : t \in TokenValues, c \in ClientValues }

\* one call of get_calendar_service, at its entry: the token it found, the
\* client credentials it read, whether it started a refresh or an OAuth
\* flow, whether that completed, whether it wrote the keyring, where the
\* credentials it built the service from came from, what it raised
NoCall == [found |-> "unread", client |-> "unread", refreshed |-> FALSE,
           flowed |-> FALSE, completed |-> FALSE, wrote |-> FALSE,
           source |-> "none", built |-> FALSE, raises |-> NoExc]

\* a run that has not started; renewed: the run has refreshed the token or
\* completed the OAuth flow
IdleRun == [pc |-> "idle", fn |-> "none", creds |-> "none",
            renewed |-> FALSE, result |-> NoResult, raised |-> NoExc,
            returned |-> FALSE, call |-> NoCall]

\* the replies the model gives a concurrent run
RunReplies ==
    { Dict([summary |-> Text("Write docs"),
            start |-> IsoStr(0, FALSE, 0, "sec"),
            end |-> IsoStr(1, FALSE, 0, "sec")]),
      Dict([summary |-> Text("Write docs")]) }

(***************************************************************************)
(* The Slack entries of the keyring and create_app.  A stored str is the   *)
(* sequence of its pieces; keyring.get_password gives None for no entry.   *)
(***************************************************************************)
KEYRING_SLACK_BOT_TOKEN_KEY == "slack_bot_token"
KEYRING_SLACK_ALLOWED_USERS_KEY == "slack_allowed_user_ids"
SlackKeys == {KEYRING_SLACK_BOT_TOKEN_KEY, KEYRING_SLACK_ALLOWED_USERS_KEY}

None == [none |-> TRUE, chars |-> <<>>]
Str(chars) == [none |-> FALSE, chars |-> chars]

\* "not value" of None or a str
Not(value) == value.none \/ value.chars = <<>>

QUOTE == "\""
COMMA == ", "
LBRACKET == "["
RBRACKET == "]"

\* json.dumps of a list of str
RECURSIVE DumpItems(_)
DumpItems(ids) ==
    IF ids = <<>> THEN <<>>
    ELSE IF Len(ids) = 1 THEN <<QUOTE, ids[1], QUOTE>>
    ELSE <<QUOTE, ids[1], QUOTE, COMMA>> \o DumpItems(Tail(ids))

dumps(ids) == <<LBRACKET>> \o DumpItems(ids) \o <<RBRACKET>>

\* json.loads, for the texts the keyring can hold: a list of str, or
\* JSONDecodeError (ok = FALSE)
RECURSIVE LoadItems(_)
LoadItems(s) ==
    IF Len(s) >= 3 /\ s[1] = QUOTE /\ s[3] = QUOTE
    THEN IF Len(s) = 3 THEN [ok |-> TRUE, items |-> <<s[2]>>]
         ELSE IF s[4] = COMMA
              THEN LET rest == LoadItems(SubSeq(s, 5, Len(s)))
                   IN  [ok |-> rest.ok, items |-> <<s[2]>> \o rest.items]
              ELSE [ok |-> FALSE, items |-> <<>>]
    ELSE [ok |-> FALSE, items |-> <<>>]

loads(s) ==
    IF Len(s) >= 2 /\ s[1] = LBRACKET /\ s[Len(s)] = RBRACKET
    THEN IF Len(s) = 2 THEN [ok |-> TRUE, items |-> <<>>]
         ELSE LoadItems(SubSeq(s, 2, Len(s) - 1))
    ELSE [ok |-> FALSE, items |-> <<>>]

\* set(a list)
SetOf(items) == {items[i] : i \in 1..Len(items)}

\* values of "--store KEY VALUE"
SecretValues == {Str(<<"xoxb-1">>), Str(<<>>)}

\* arguments of "--allow-users", as args[1].split(","): "U1", "U1, U2",
\* "," and " "
AllowArgs ==
    { << <<"U1">> >>,
      << <<"U1">>, <<SP, "U2">> >>,
      << <<>>, <<>> >>,
      << <<SP>> >> }

\* ids = [uid.strip() for uid in args[1].split(",") if uid.strip()]
RECURSIVE StrippedIds(_)
StrippedIds(pieces) ==
    IF pieces = <<>> THEN <<>>
    ELSE LET uid == Strip(Head(pieces))
         IN  (IF uid # <<>> THEN <<Join(uid)>> ELSE <<>>)
                 \o StrippedIds(Tail(pieces))

RuntimeError(msg) == [type |-> "RuntimeError", msg |-> msg]
MsgNoBotToken == "No Slack bot token (xoxb-...) found in keyring."
MsgNoAllowedUsers == "No allowed Slack user IDs configured."

\* get_allowed_user_ids(): the set, or the exception json.loads raises
get_allowed_user_ids(raw) ==
    IF Not(raw) THEN [raises |-> NoExc, value |-> {}]
    ELSE LET parsed == loads(raw.chars)
         IN  IF parsed.ok
             THEN [raises |-> NoExc, value |-> SetOf(parsed.items)]
             ELSE [raises |-> [type |-> "JSONDecodeError", msg |-> ""],
                   value |-> {}]

\* what the handlers and the middleware create_app registers
Registrations == {"authorize_user", "handle_dm", "handle_mention"}

\* no create_app call yet
NoApp == [pc |-> "none", bot_token |-> None, raw |-> None,
          allowed_users |-> {}, constructed |-> FALSE, registered |-> {},
          raised |-> NoExc]

InitLocal ==
    /\ pc = "idle"
    /\ task_description = "write docs"
    /\ days_ahead = DefaultDaysAhead
    /\ current_schedule = <<>>
    /\ result = NoResult
    /\ created_event = NoEvent
    /\ raised = NoExc
    /\ returned = NotReturned
    /\ printed = <<>>
    /\ calls = <<>>
    /\ validated = <<>>
    /\ caller = "none"
    /\ allowed_users = AllowedUsers
    /\ event = NonEvent
    /\ fpc = "idle"
    /\ nextCalls = 0
    /\ warnings = 0
    /\ said = <<>>
    /\ propagated = NoExc
    /\ secrets = [k \in SlackKeys |-> None]
    /\ app = NoApp

\* no concurrent runs: the keyring holds a valid token
Init ==
    /\ InitLocal
    /\ keyring = [k \in KeyringKeys |->
                     IF k = KEYRING_TOKEN_KEY THEN Entry("valid", Stored)
                     ELSE Entry("present", Stored)]
    /\ run = [r \in Runs |-> IdleRun]
    /\ conflicts = {}

\* the runs start with whatever the keyring holds
InitConc ==
    /\ InitLocal
    /\ keyring \in Keyrings
    /\ run = [r \in Runs |-> IdleRun]
    /\ conflicts = {}

\* entry of schedule_task(t, days_ahead=d): fresh locals
Invoke(t, d) ==
    /\ task_description' = t
    /\ days_ahead' = d
    /\ pc' = "fetch"
    /\ current_schedule' = <<>>
    /\ result' = NoResult
    /\ created_event' = NoEvent
    /\ raised' = NoExc
    /\ returned' = NotReturned
    /\ printed' = <<>>
    /\ calls' = <<>>
    /\ validated' = <<>>

\* schedule_task(task, days_ahead=d) is called directly (a new invocation)
Call ==
    /\ pc \in {"idle", "done"}
    /\ fpc = "idle"
    /\ \E t \in Tasks, d \in DaysAheadValues : Invoke(t, d)
    /\ caller' = "direct"
    /\ UNCHANGED <<appVars, concVars, allowed_users, event, fpc, nextCalls, warnings,
                   said, propagated>>

\* the record of one external call: its arguments and what it raised
GetScheduleCall(exc) ==
    [fn |-> "get_schedule", days_ahead |-> days_ahead,
     timeMin |-> NowDay, timeMax |-> NowDay + days_ahead,
     raises |-> exc]

InvokeCall(exc) ==
    [fn |-> "chain.invoke",
     days_ahead |-> days_ahead,
     schedule |-> FormatSchedule(current_schedule),
     duration |-> DefaultDuration,
     task |-> task_description,
     raises |-> exc]

CreateEventCall(exc) ==
    [fn |-> "create_event",
     summary |-> Get(result, "summary", Text(task_description)),
     start |-> result.d["start"],
     end |-> result.d["end"],
     description |-> <<"Scheduled by GhostInTheMini\nReasoning: ",
                       Get(result, "reasoning", Text(""))>>,
     raises |-> exc]

\* a plausible slip: a failed fetch is tried again
FetchScheduleRetry ==
    /\ pc = "fetch"
    /\ \/ \E s \in SchedulesNow :
            /\ calls' = Append(calls, GetScheduleCall(NoExc))
            /\ current_schedule' = s
            /\ pc' = "invoke"
       \/ \E exc \in FetchErrors :
            /\ calls' = Append(calls, GetScheduleCall(exc))
            /\ pc' = IF Len(calls) < 2 THEN "fetch" ELSE "invoke"
            /\ UNCHANGED current_schedule
    /\ UNCHANGED <<appVars, concVars, frontVars, task_description, days_ahead, result, created_event,
                   raised, returned, printed, validated>>

\* a plausible slip: the gateway's exception leaves schedule_task as it is
FetchFailureUnwrapped(exc) == exc

\* the exception schedule_task raises for an exception of get_schedule
FetchFailure(exc) == SchedulingError(MsgCalendarRead, NoInfo, exc)

\* 1 -- fetch the current schedule
FetchSchedule ==
    /\ pc = "fetch"
    /\ \/ \E s \in SchedulesNow :
            /\ calls' = Append(calls, GetScheduleCall(NoExc))
            /\ current_schedule' = s
            /\ pc' = "invoke"
            /\ UNCHANGED raised
       \/ \E exc \in FetchErrors :
            /\ calls' = Append(calls, GetScheduleCall(exc))
            /\ raised' = FetchFailure(exc)
            /\ pc' = "done"
            /\ UNCHANGED current_schedule
    /\ UNCHANGED <<appVars, concVars, frontVars, task_description, days_ahead, result, created_event,
                   returned, printed, validated>>

\* a plausible slip: "raise SchedulingError(...)" without "from exc"
InvokeFailureNoCause(exc) ==
    SchedulingError(MsgLLMFailed, [model |-> MODEL], NoExc)

\* the exception schedule_task raises for an exception of chain.invoke
InvokeFailure(exc) ==
    SchedulingError(MsgLLMFailed, [model |-> MODEL], exc)

\* 2, 3 -- build the prompt and run the chain
InvokeModel ==
    /\ pc = "invoke"
    /\ \/ \E r \in RepliesNow :
            /\ calls' = Append(calls, InvokeCall(NoExc))
            /\ result' = r
            /\ pc' = "validate"
            /\ UNCHANGED raised
       \/ \E exc \in InvokeErrors :
            /\ calls' = Append(calls, InvokeCall(exc))
            /\ raised' = InvokeFailure(exc)
            /\ pc' = "done"
            /\ UNCHANGED result
    /\ UNCHANGED <<appVars, concVars, frontVars, task_description, days_ahead, current_schedule,
                   created_event, returned, printed, validated>>

\* a plausible slip: the reply goes to event creation without validation
ValidateSkipped ==
    /\ pc = "validate"
    /\ IF result.py = "dict" /\ {"start", "end"} \subseteq DOMAIN result.d
       THEN pc' = "create" /\ UNCHANGED raised
       ELSE pc' = "done" /\ raised' = External("KeyError")
    /\ UNCHANGED <<appVars, concVars, frontVars, task_description, days_ahead, current_schedule, result,
                   created_event, returned, printed, calls, validated>>

\* a plausible slip: step 4 wrapped like the other steps
ValidationFailureWrapped(exc) ==
    SchedulingError("LLM returned bad data", NoInfo, exc)

\* what leaves schedule_task when validate_llm_result raises exc:
\* the call is not inside any try block
ValidationFailure(exc) == exc

\* 4 -- validate the LLM response
Validate ==
    /\ pc = "validate"
    /\ LET exc == validate_llm_result(result)
       IN  /\ validated' = Append(validated, [result |-> result, raises |-> exc])
           /\ IF exc = NoExc
              THEN /\ pc' = "create"
                   /\ UNCHANGED raised
              ELSE /\ raised' = ValidationFailure(exc)
                   /\ pc' = "done"
    /\ UNCHANGED <<appVars, concVars, frontVars, task_description, days_ahead, current_schedule, result,
                   created_event, returned, printed, calls>>

\* a plausible slip: no "except SchedulingError: raise" before the wrapping
CreateFailureAlwaysWrapped(exc) ==
    SchedulingError(MsgCalendarRejected, NoInfo, exc)

\* the exception schedule_task raises for an exception of create_event
CreateFailure(exc) ==
    IF exc.type = "SchedulingError" THEN exc
    ELSE SchedulingError(MsgCalendarRejected, NoInfo, exc)

\* 5 -- create the event on Google Calendar
CreateEvent ==
    /\ pc = "create"
    /\ \/ \E ev \in CreatedEvents :
            /\ calls' = Append(calls, CreateEventCall(NoExc))
            /\ created_event' = ev
            /\ pc' = "finish"
            /\ UNCHANGED raised
       \/ \E exc \in CreateErrors :
            /\ calls' = Append(calls, CreateEventCall(exc))
            /\ raised' = CreateFailure(exc)
            /\ pc' = "done"
            /\ UNCHANGED created_event
    /\ UNCHANGED <<appVars, concVars, frontVars, task_description, days_ahead, current_schedule, result,
                   returned, printed, validated>>

\* created_event.get('htmlLink', 'N/A')
LinkOf(ev) ==
    IF "htmlLink" \in DOMAIN ev THEN Text(ev.htmlLink) ELSE Text("N/A")

\* a plausible change: the link is added to the returned dict
ReturnValueWithLink ==
    Dict([k \in DOMAIN result.d \cup {"htmlLink"} |->
            IF k = "htmlLink" THEN LinkOf(created_event) ELSE result.d[k]])

\* the value schedule_task returns
ReturnValue == result

\* print the confirmation and return
Finish ==
    /\ pc = "finish"
    /\ printed' =
        << [label |-> "Event created",
            value |-> Get(result, "summary", Text(task_description))],
           [label |-> "Start", value |-> result.d["start"]],
           [label |-> "End", value |-> result.d["end"]],
           [label |-> "Reason", value |-> Get(result, "reasoning", Text("N/A"))],
           [label |-> "Link", value |-> LinkOf(created_event)] >>
    /\ returned' = [done |-> TRUE, value |-> ReturnValue]
    /\ pc' = "done"
    /\ UNCHANGED <<appVars, concVars, frontVars, task_description, days_ahead, current_schedule, result,
                   created_event, raised, calls, validated>>

(***************************************************************************)
(* The Slack app built by create_app (slack_bot.py).                       *)
(***************************************************************************)
\* the locals of a finished schedule_task invocation are gone
NoRun ==
    /\ pc' = "idle"
    /\ task_description' = "write docs"
    /\ days_ahead' = DefaultDaysAhead
    /\ current_schedule' = <<>>
    /\ result' = NoResult
    /\ created_event' = NoEvent
    /\ raised' = NoExc
    /\ returned' = NotReturned
    /\ printed' = <<>>
    /\ calls' = <<>>
    /\ validated' = <<>>

FrontIdle == fpc \in {"idle", "finished"} /\ pc \in {"idle", "done"}

\* a payload arrives from Slack
Receive ==
    /\ FrontIdle
    /\ \E e \in Payloads : event' = e
    /\ fpc' = "middleware"
    /\ caller' = "none"
    /\ nextCalls' = 0
    /\ warnings' = 0
    /\ said' = <<>>
    /\ propagated' = NoExc
    /\ NoRun
    /\ UNCHANGED <<appVars, concVars, allowed_users>>

\* a plausible slip: no "return" after the warning
authorize_userNoReturn(e, allowed) ==
    IF e.user = NoUser THEN [next |-> 1, warn |-> 0]
    ELSE IF e.user \notin allowed THEN [next |-> 1, warn |-> 1]
    ELSE [next |-> 1, warn |-> 0]

\* authorize_user(body, next, logger): the number of next() calls and of
\* warnings, for event = body.get("event", {})
authorize_user(e, allowed) ==
    IF e.user = NoUser THEN [next |-> 1, warn |-> 0]
    ELSE IF e.user \notin allowed THEN [next |-> 0, warn |-> 1]
    ELSE [next |-> 1, warn |-> 0]

\* the listener Bolt runs once the middleware called next()
Listener(e) ==
    IF e.payload = "event" /\ e.type = "message" THEN "handle_dm"
    ELSE IF e.payload = "event" /\ e.type = "app_mention" THEN "handle_mention"
    ELSE "finished"

Middleware ==
    /\ fpc = "middleware"
    /\ LET a == authorize_user(event, allowed_users)
       IN  /\ nextCalls' = a.next
           /\ warnings' = a.warn
           /\ fpc' = IF a.next > 0 THEN Listener(event) ELSE "finished"
    /\ UNCHANGED <<appVars, concVars, runVars, caller, allowed_users, event, said,
                   propagated>>

OnIt == [kind |-> "On it - let me check your calendar..."]
YouRang == [kind |-> "You rang? Tell me what to schedule."]

\* handle_dm(event, say), up to the call of schedule_task
HandleDm ==
    /\ fpc = "handle_dm"
    /\ LET text == DmText(event)
       IN  IF text = <<>> \/ event.bot_id \/ event.subtype
           THEN /\ fpc' = "finished"
                /\ UNCHANGED <<runVars, caller, said>>
           ELSE /\ said' = Append(said, OnIt)
                /\ caller' = "handle_dm"
                /\ Invoke(Join(text), DefaultDaysAhead)
                /\ fpc' = "awaiting"
    /\ UNCHANGED <<appVars, concVars, allowed_users, event, nextCalls, warnings,
                   propagated>>

\* handle_mention(event, say), up to the call of schedule_task
HandleMention ==
    /\ fpc = "handle_mention"
    /\ LET text == MentionText(event)
       IN  IF text = <<>>
           THEN /\ said' = Append(said, YouRang)
                /\ fpc' = "finished"
                /\ UNCHANGED <<runVars, caller>>
           ELSE /\ said' = Append(said, OnIt)
                /\ caller' = "handle_mention"
                /\ Invoke(Join(text), DefaultDaysAhead)
                /\ fpc' = "awaiting"
    /\ UNCHANGED <<appVars, concVars, allowed_users, event, nextCalls, warnings,
                   propagated>>

\* str(exc) of a SchedulingError
MessageOf(exc) == [text |-> exc.kind, info |-> exc.info]

Scheduled(value, text) ==
    [kind |-> "scheduled!",
     title |-> Get(value, "summary", Text(text)),
     start |-> value.d["start"],
     end |-> value.d["end"],
     reason |-> Get(value, "reasoning", Text("N/A"))]

\* a plausible slip: only "except SchedulingError", no "except Exception"
HandlerReplyNoCatchAll(ret, exc, text) ==
    IF ret.done THEN [say |-> <<Scheduled(ret.value, text)>>, raises |-> NoExc]
    ELSE IF exc.type = "SchedulingError"
    THEN [say |-> <<[kind |-> "Couldn't schedule that", msg |-> MessageOf(exc)]>>,
          raises |-> NoExc]
    ELSE [say |-> <<>>, raises |-> exc]

\* the try block of handle_dm and of handle_mention: what is said and what
\* leaves the handler, for what schedule_task returned (ret) or raised (exc)
HandlerReply(ret, exc, text) ==
    IF ret.done THEN [say |-> <<Scheduled(ret.value, text)>>, raises |-> NoExc]
    ELSE IF exc.type = "SchedulingError"
    THEN [say |-> <<[kind |-> "Couldn't schedule that", msg |-> MessageOf(exc)]>>,
          raises |-> NoExc]
    ELSE [say |-> <<[kind |-> "Something went wrong. Check the Ghost's logs."]>>,
          raises |-> NoExc]

\* handle_dm / handle_mention after schedule_task returned or raised
HandlerFinish ==
    /\ fpc = "awaiting"
    /\ caller \in {"handle_dm", "handle_mention"}
    /\ pc = "done"
    /\ LET out == HandlerReply(returned, raised, task_description)
       IN  /\ said' = said \o out.say
           /\ propagated' = out.raises
    /\ fpc' = "finished"
    /\ UNCHANGED <<appVars, concVars, runVars, caller, allowed_users, event, nextCalls,
                   warnings>>

(***************************************************************************)
(* The command line of scheduler.py: schedule_task(task).                  *)
(***************************************************************************)
CliMain ==
    /\ FrontIdle
    /\ \E t \in Tasks : Invoke(t, DefaultDaysAhead)
    /\ caller' = "cli"
    /\ event' = NonEvent
    /\ fpc' = "awaiting"
    /\ nextCalls' = 0
    /\ warnings' = 0
    /\ said' = <<>>
    /\ propagated' = NoExc
    /\ UNCHANGED <<appVars, concVars, allowed_users>>

\* schedule_task(task) is the last statement, in no try block
CliFinish ==
    /\ fpc = "awaiting"
    /\ caller = "cli"
    /\ pc = "done"
    /\ propagated' = raised
    /\ fpc' = "finished"
    /\ UNCHANGED <<appVars, concVars, runVars, caller, allowed_users, event, nextCalls,
                   warnings, said>>

(***************************************************************************)
(* Concurrent runs.  Each run is schedule_task for one Slack message;      *)
(* get_schedule and create_event each call get_calendar_service, whose     *)
(* keyring accesses are separate steps other runs can interleave with.     *)
(***************************************************************************)
\* what an access of run r to entry k adds to the conflicts: the entry was
\* last written by another run
Conflict(kind, k, r) ==
    IF keyring[k].writer \notin {Stored, r}
    THEN {[kind |-> kind, key |-> k]}
    ELSE {}

\* keyring.get_password(KEYRING_SERVICE, k) by run r
GetPassword(k, r) == conflicts' = conflicts \cup Conflict("read", k, r)

\* keyring.set_password(KEYRING_SERVICE, k, v) by run r
SetPassword(k, v, r) ==
    /\ keyring' = [keyring EXCEPT ![k] = Entry(v, r)]
    /\ conflicts' = conflicts \cup Conflict("overwrite", k, r)

\* an exception leaves get_schedule or create_event in run r: schedule_task
\* wraps it as it does in the single run
Wrapped(r, exc) ==
    IF run[r].fn = "get_schedule" THEN FetchFailure(exc) ELSE CreateFailure(exc)

RunFails(r, exc) ==
    run' = [run EXCEPT ![r].pc = "done", ![r].raised = Wrapped(r, exc)]

\* exc leaves get_calendar_service in run r, whose call record ends as call
ServiceFails(r, exc, call) ==
    run' = [run EXCEPT ![r].pc = "done", ![r].raised = Wrapped(r, exc),
                       ![r].call = [call EXCEPT !.raises = exc]]

\* a handler calls schedule_task: get_schedule calls get_calendar_service
StartOf(r) ==
    /\ run[r].pc = "idle"
    /\ run' = [run EXCEPT ![r].pc = "load", ![r].fn = "get_schedule",
                          ![r].call = NoCall]
    /\ UNCHANGED <<keyring, conflicts>>

\* a plausible slip: the token is persisted on every call
NextAfterLoadAlwaysStore(creds) ==
    IF creds = "valid" THEN "store"
    ELSE IF creds = "expired" THEN "refresh"
    ELSE "client"

\* if not creds or not creds.valid: refresh if creds.expired and
\* creds.refresh_token, else the OAuth flow; a valid token goes to build
NextAfterLoad(creds) ==
    IF creds = "valid" THEN "build"
    ELSE IF creds = "expired" THEN "refresh"
    ELSE "client"

\* token_json = keyring.get_password(...); creds from it; which branch next
LoadTokenOf(r) ==
    /\ run[r].pc = "load"
    /\ GetPassword(KEYRING_TOKEN_KEY, r)
    /\ LET creds == keyring[KEYRING_TOKEN_KEY].value
       IN run' = [run EXCEPT ![r].creds = creds,
                             ![r].call.found = creds,
                             ![r].call.source =
                                 IF creds = "none" THEN "none" ELSE "stored",
                             ![r].pc = NextAfterLoad(creds)]
    /\ UNCHANGED keyring

\* creds.refresh(Request()): succeeds or raises
RefreshOf(r) ==
    /\ run[r].pc = "refresh"
    /\ LET call == [run[r].call EXCEPT !.refreshed = TRUE]
       IN  \/ run' = [run EXCEPT ![r].creds = "valid", ![r].renewed = TRUE,
                                 ![r].call = [call EXCEPT !.completed = TRUE,
                                                          !.source = "refreshed"],
                                 ![r].pc = "store"]
           \/ ServiceFails(r, External("RefreshError"), call)
    /\ UNCHANGED <<keyring, conflicts>>

\* client_json = keyring.get_password(...); RuntimeError without it, else
\* the OAuth flow gives fresh credentials or raises
LoadClientOf(r) ==
    /\ run[r].pc = "client"
    /\ GetPassword(KEYRING_CREDENTIALS_KEY, r)
    /\ LET client == keyring[KEYRING_CREDENTIALS_KEY].value
           read == [run[r].call EXCEPT !.client = client]
           flow == [read EXCEPT !.flowed = TRUE]
       IN  IF client = "none"
           THEN ServiceFails(r, External("RuntimeError"), read)
           ELSE \/ run' = [run EXCEPT ![r].creds = "valid",
                                      ![r].renewed = TRUE,
                                      ![r].call = [flow EXCEPT
                                                      !.completed = TRUE,
                                                      !.source = "flow"],
                                      ![r].pc = "store"]
                \/ ServiceFails(r, External("AccessDeniedError"), flow)
    /\ UNCHANGED keyring

\* a plausible slip: the token is stored under the client credentials key
StoreTokenWrongKey(r) ==
    /\ run[r].pc = "store"
    /\ SetPassword(KEYRING_CREDENTIALS_KEY, "present", r)
    /\ run' = [run EXCEPT ![r].pc = "build", ![r].call.wrote = TRUE]

\* keyring.set_password(KEYRING_SERVICE, KEYRING_TOKEN_KEY, creds.to_json()),
\* reached only after a refresh or an OAuth flow
StoreTokenOf(r) ==
    /\ run[r].pc = "store"
    /\ SetPassword(KEYRING_TOKEN_KEY, run[r].creds, r)
    /\ run' = [run EXCEPT ![r].pc = "build", ![r].call.wrote = TRUE]

\* return build("calendar", "v3", credentials=creds), back in the caller
BuildOf(r) ==
    /\ run[r].pc = "build"
    /\ run' = [run EXCEPT ![r].pc = IF run[r].fn = "get_schedule"
                                    THEN "list" ELSE "insert",
                          ![r].call.built = TRUE]
    /\ UNCHANGED <<keyring, conflicts>>

\* service.events().list(...).execute() returns or raises
ListOf(r) ==
    /\ run[r].pc = "list"
    /\ \/ run' = [run EXCEPT ![r].pc = "invoke"]
       \/ \E exc \in FetchErrors : RunFails(r, exc)
    /\ UNCHANGED <<keyring, conflicts>>

\* chain.invoke(...) returns a reply or raises
InvokeOf(r) ==
    /\ run[r].pc = "invoke"
    /\ \/ \E reply \in RunReplies :
              run' = [run EXCEPT ![r].result = reply, ![r].pc = "validate"]
       \/ \E exc \in InvokeErrors :
              run' = [run EXCEPT ![r].raised = InvokeFailure(exc),
                                 ![r].pc = "done"]
    /\ UNCHANGED <<keyring, conflicts>>

\* validate_llm_result(result), then create_event calls get_calendar_service
ValidateOf(r) ==
    /\ run[r].pc = "validate"
    /\ LET exc == validate_llm_result(run[r].result)
       IN IF exc = NoExc
          THEN run' = [run EXCEPT ![r].pc = "load", ![r].fn = "create_event",
                                  ![r].call = NoCall]
          ELSE run' = [run EXCEPT ![r].raised = ValidationFailure(exc),
                                  ![r].pc = "done"]
    /\ UNCHANGED <<keyring, conflicts>>

\* service.events().insert(...).execute() returns or raises; on return
\* schedule_task returns result
InsertOf(r) ==
    /\ run[r].pc = "insert"
    /\ \/ run' = [run EXCEPT ![r].pc = "done", ![r].returned = TRUE]
       \/ \E exc \in CreateErrors : RunFails(r, exc)
    /\ UNCHANGED <<keyring, conflicts>>

RunStart == \E r \in Runs : StartOf(r) /\ UNCHANGED <<appVars, runVars, frontVars>>
RunLoadToken == \E r \in Runs : LoadTokenOf(r) /\ UNCHANGED <<appVars, runVars, frontVars>>
RunRefresh == \E r \in Runs : RefreshOf(r) /\ UNCHANGED <<appVars, runVars, frontVars>>
RunLoadClient == \E r \in Runs : LoadClientOf(r) /\ UNCHANGED <<appVars, runVars, frontVars>>
RunStoreToken == \E r \in Runs : StoreTokenOf(r) /\ UNCHANGED <<appVars, runVars, frontVars>>
RunBuild == \E r \in Runs : BuildOf(r) /\ UNCHANGED <<appVars, runVars, frontVars>>
RunList == \E r \in Runs : ListOf(r) /\ UNCHANGED <<appVars, runVars, frontVars>>
RunInvoke == \E r \in Runs : InvokeOf(r) /\ UNCHANGED <<appVars, runVars, frontVars>>
RunValidate == \E r \in Runs : ValidateOf(r) /\ UNCHANGED <<appVars, runVars, frontVars>>
RunInsert == \E r \in Runs : InsertOf(r) /\ UNCHANGED <<appVars, runVars, frontVars>>

(***************************************************************************)
(* The Slack bot's command line: storing secrets, and create_app.          *)
(***************************************************************************)
\* python -m ghostinthemini.slack_bot --store KEY VALUE
StoreSecret ==
    /\ \E k \in SlackKeys, v \in SecretValues :
           secrets' = [secrets EXCEPT ![k] = v]
    /\ UNCHANGED <<app, runVars, frontVars, concVars>>

\* python -m ghostinthemini.slack_bot --allow-users ID[,ID...]
StoreAllowedUsers ==
    /\ \E arg \in AllowArgs :
           secrets' = [secrets EXCEPT ![KEYRING_SLACK_ALLOWED_USERS_KEY] =
                                          Str(dumps(StrippedIds(arg)))]
    /\ UNCHANGED <<app, runVars, frontVars, concVars>>

\* start() calls create_app(): fresh locals
CreateApp ==
    /\ app.pc \in {"none", "done"}
    /\ app' = [NoApp EXCEPT !.pc = "token"]
    /\ UNCHANGED <<secrets, runVars, frontVars, concVars>>

\* bot_token = _get_required_token(KEYRING_SLACK_BOT_TOKEN_KEY, ...)
GetRequiredToken ==
    /\ app.pc = "token"
    /\ LET value == secrets[KEYRING_SLACK_BOT_TOKEN_KEY]
       IN  IF Not(value)
           THEN app' = [app EXCEPT !.bot_token = value,
                                   !.raised = RuntimeError(MsgNoBotToken),
                                   !.pc = "done"]
           ELSE app' = [app EXCEPT !.bot_token = value, !.pc = "allowed"]
    /\ UNCHANGED <<secrets, runVars, frontVars, concVars>>

\* a plausible slip: the allowlist is not checked
create_appNoCheck(allowed) == NoExc

\* if not allowed_users: raise RuntimeError(...)
create_appCheck(allowed) ==
    IF allowed = {} THEN RuntimeError(MsgNoAllowedUsers) ELSE NoExc

\* allowed_users = get_allowed_user_ids(), and the check that follows
GetAllowedUsers ==
    /\ app.pc = "allowed"
    /\ LET raw == secrets[KEYRING_SLACK_ALLOWED_USERS_KEY]
           got == get_allowed_user_ids(raw)
           exc == IF got.raises # NoExc THEN got.raises
                  ELSE create_appCheck(got.value)
       IN  IF exc # NoExc
           THEN app' = [app EXCEPT !.raw = raw, !.raised = exc, !.pc = "done"]
           ELSE app' = [app EXCEPT !.raw = raw, !.allowed_users = got.value,
                                   !.pc = "app"]
    /\ UNCHANGED <<secrets, runVars, frontVars, concVars>>

\* app = App(token=bot_token): Bolt accepts the token or raises
ConstructApp ==
    /\ app.pc = "app"
    /\ \/ app' = [app EXCEPT !.constructed = TRUE, !.pc = "register"]
       \/ app' = [app EXCEPT !.raised = [type |-> "BoltError", msg |-> ""],
                             !.pc = "done"]
    /\ UNCHANGED <<secrets, runVars, frontVars, concVars>>

\* @app.use, @app.event("message"), @app.event("app_mention"); return app
RegisterHandlers ==
    /\ app.pc = "register"
    /\ app' = [app EXCEPT !.registered = Registrations, !.pc = "done"]
    /\ UNCHANGED <<secrets, runVars, frontVars, concVars>>

Next ==
    \/ Call
    \/ FetchSchedule
    \/ InvokeModel
    \/ Validate
    \/ CreateEvent
    \/ Finish

Spec == Init /\ [][Next]_vars

\* the front ends running the pipeline
NextFront ==
    \/ Receive
    \/ Middleware
    \/ HandleDm
    \/ HandleMention
    \/ HandlerFinish
    \/ CliMain
    \/ CliFinish
    \/ FetchSchedule
    \/ InvokeModel
    \/ Validate
    \/ CreateEvent
    \/ Finish

SpecFront == Init /\ [][NextFront]_vars

\* several runs in flight at once over one keyring
NextConc ==
    \/ RunStart
    \/ RunLoadToken
    \/ RunRefresh
    \/ RunLoadClient
    \/ RunStoreToken
    \/ RunBuild
    \/ RunList
    \/ RunInvoke
    \/ RunValidate
    \/ RunInsert

SpecConc == InitConc /\ [][NextConc]_vars

\* the bot's command line: secrets are stored, the app is created
NextApp ==
    \/ StoreSecret
    \/ StoreAllowedUsers
    \/ CreateApp
    \/ GetRequiredToken
    \/ GetAllowedUsers
    \/ ConstructApp
    \/ RegisterHandlers

SpecApp == Init /\ [][NextApp]_vars

(***************************************************************************)
(* Helpers of the properties.                                              *)
(***************************************************************************)
CallsOf(fn) == {i \in 1..Len(calls) : calls[i].fn = fn}

CallOrder == <<"get_schedule", "chain.invoke", "create_event">>

Failed == pc = "done" /\ raised # NoExc /\ ~returned.done

\* a value that is a string spelling an ISO-8601 date-time
Parseable(value) == value.py = "str" /\ value.iso

(***************************************************************************)
(* C1: create_event is called only after validate_llm_result returned      *)
(* without raising on the model result of this run, and the start and end  *)
(* passed to create_event are that validated result's start and end.       *)
(***************************************************************************)
C1_CreateOnlyValidated ==
    \A i \in CallsOf("create_event") :
        /\ Len(validated) = 1
        /\ validated[1].result = result
        /\ validated[1].raises = NoExc
        /\ calls[i].start = validated[1].result.d["start"]
        /\ calls[i].end = validated[1].result.d["end"]
        /\ Parseable(calls[i].start) /\ Parseable(calls[i].end)
        /\ REQUIRED_KEYS \subseteq DOMAIN result.d

C1_Witness ==
    /\ CallsOf("create_event") # {}
    /\ Len(validated) = 1
    /\ "reasoning" \in DOMAIN result.d

(***************************************************************************)
(* C2: the external calls of one invocation happen in the order            *)
(* get_schedule, chain.invoke, create_event, each at most once; a run that *)
(* returns made each exactly once; a call that raised is the last call of  *)
(* the invocation (nothing is retried).                                    *)
(***************************************************************************)
C2_CallOrder ==
    /\ Len(calls) <= 3
    /\ \A i \in 1..Len(calls) : calls[i].fn = CallOrder[i]
    /\ returned.done => Len(calls) = 3
    /\ \A i \in 1..Len(calls) : calls[i].raises # NoExc => i = Len(calls) /\ Failed

C2_Witness ==
    /\ returned.done
    /\ Len(calls) = 3
    /\ Len(current_schedule) = 2

(***************************************************************************)
(* C3: if chain.invoke raises, schedule_task raises the SchedulingError    *)
(* "LLM call failed ..." naming MODEL, whose cause is the exception of     *)
(* chain.invoke, and create_event is not called.                           *)
(***************************************************************************)
C3_InvokeFailure ==
    \A i \in CallsOf("chain.invoke") :
        calls[i].raises # NoExc =>
            /\ Failed
            /\ raised.type = "SchedulingError"
            /\ raised.kind = MsgLLMFailed
            /\ raised.info.model = MODEL
            /\ raised.cause = calls[i].raises
            /\ CallsOf("create_event") = {}
            /\ validated = <<>>

C3_Witness ==
    /\ pc = "done"
    /\ \E i \in CallsOf("chain.invoke") :
          calls[i].raises = External("ConnectionError")

(***************************************************************************)
(* C4: if validate_llm_result raises, schedule_task ends with that very    *)
(* exception (not wrapped), chain.invoke was called once, and create_event *)
(* is not called.                                                          *)
(***************************************************************************)
C4_ValidationPropagates ==
    \A j \in 1..Len(validated) :
        validated[j].raises # NoExc =>
            /\ Failed
            /\ raised = validated[j].raises
            /\ Cardinality(CallsOf("chain.invoke")) = 1
            /\ Len(validated) = 1
            /\ CallsOf("create_event") = {}

C4_Witness ==
    /\ pc = "done"
    /\ Len(validated) = 1
    /\ validated[1].raises.type = "SchedulingError"
    /\ validated[1].raises.kind = MsgMissingKeys
    /\ validated[1].raises.info.keys = <<"end", "start">>

(***************************************************************************)
(* C5: if get_schedule raises, schedule_task raises the SchedulingError    *)
(* "Failed to fetch your calendar ..." whose cause is the exception of     *)
(* get_schedule, and neither chain.invoke nor create_event is called.      *)
(***************************************************************************)
C5_FetchFailure ==
    \A i \in CallsOf("get_schedule") :
        calls[i].raises # NoExc =>
            /\ Failed
            /\ raised.type = "SchedulingError"
            /\ raised.kind = MsgCalendarRead
            /\ raised.cause = calls[i].raises
            /\ CallsOf("chain.invoke") = {}
            /\ CallsOf("create_event") = {}

C5_Witness ==
    /\ pc = "done"
    /\ \E i \in CallsOf("get_schedule") :
          calls[i].raises = External("RuntimeError")

(***************************************************************************)
(* C6: an exception of create_event that is not a SchedulingError leaves   *)
(* schedule_task as the SchedulingError "Google Calendar rejected the      *)
(* event ..." with the original as its cause; a SchedulingError raised     *)
(* there leaves schedule_task as it is; in both cases nothing is returned. *)
(***************************************************************************)
C6_CreateFailure ==
    \A i \in CallsOf("create_event") :
        calls[i].raises # NoExc =>
            /\ Failed
            /\ raised.type = "SchedulingError"
            /\ IF calls[i].raises.type = "SchedulingError"
               THEN raised = calls[i].raises
               ELSE /\ raised.kind = MsgCalendarRejected
                    /\ raised.cause = calls[i].raises

C6_Witness ==
    /\ pc = "done"
    /\ \E i \in CallsOf("create_event") :
          calls[i].raises.type = "SchedulingError"

(***************************************************************************)
(* C7: every invocation ends by returning or by raising a SchedulingError  *)
(* of one of the four kinds (calendar read, model invocation, validation,  *)
(* calendar write); no exception of another type leaves schedule_task.     *)
(***************************************************************************)
TypedFailureKinds ==
    {MsgCalendarRead, MsgLLMFailed, MsgMissingKeys, MsgInvalidDatetime,
     MsgEndNotAfterStart, MsgCalendarRejected}

C7_OnlyTypedFailures ==
    pc = "done" =>
        \/ returned.done /\ raised = NoExc
        \/ /\ ~returned.done
           /\ raised.type = "SchedulingError"
           /\ \/ raised.kind \in TypedFailureKinds
              \/ \E i \in CallsOf("create_event") : raised = calls[i].raises

(***************************************************************************)
(* C8 as stated: the value returned on success carries the reference link  *)
(* of the created event, or a placeholder string, beside summary, start    *)
(* and end.                                                                *)
(***************************************************************************)
C8_ReturnsLink ==
    returned.done =>
        /\ REQUIRED_KEYS \subseteq DOMAIN returned.value.d
        /\ \E k \in DOMAIN returned.value.d :
              returned.value.d[k] = LinkOf(created_event)

(***************************************************************************)
(* C8 amended: on success schedule_task returns the validated proposal     *)
(* itself, unchanged (summary, start, end and whatever else the model      *)
(* gave), with no link in it; the link of the created event, or "N/A" when *)
(* it has none, is only printed.                                           *)
(***************************************************************************)
C8_ReturnsProposal ==
    returned.done =>
        /\ returned.value = validated[1].result
        /\ \A k \in REQUIRED_KEYS :
              k \in DOMAIN returned.value.d /\ returned.value.d[k] = result.d[k]
        /\ \A k \in DOMAIN returned.value.d :
              returned.value.d[k] # LinkOf(created_event)
        /\ printed[5].label = "Link"
        /\ printed[5].value =
              IF "htmlLink" \in DOMAIN created_event
              THEN Text(created_event.htmlLink) ELSE Text("N/A")

C8_Witness ==
    /\ returned.done
    /\ "htmlLink" \notin DOMAIN created_event
    /\ printed[5].value = Text("N/A")
    /\ "reasoning" \in DOMAIN returned.value.d

(***************************************************************************)
(* C9: for a reply (a JSON object) that lacks required keys,               *)
(* validate_llm_result raises the SchedulingError "missing required        *)
(* key(s)" naming exactly the absent keys in alphabetical order, whatever  *)
(* the timestamps that are present look like.                              *)
(***************************************************************************)
AlphabeticalKeys(M) ==
    CASE M = {"end"}                     -> <<"end">>
      [] M = {"start"}                   -> <<"start">>
      [] M = {"summary"}                 -> <<"summary">>
      [] M = {"end", "start"}            -> <<"end", "start">>
      [] M = {"end", "summary"}          -> <<"end", "summary">>
      [] M = {"start", "summary"}        -> <<"start", "summary">>
      [] M = {"end", "start", "summary"} -> <<"end", "start", "summary">>

C9_MissingKeys ==
    \A j \in 1..Len(validated) :
        LET r == validated[j].result
            exc == validated[j].raises
        IN  (r.py = "dict" /\ ~(REQUIRED_KEYS \subseteq DOMAIN r.d)) =>
                /\ exc.type = "SchedulingError"
                /\ exc.kind = MsgMissingKeys
                /\ exc.info.keys = AlphabeticalKeys(REQUIRED_KEYS \ DOMAIN r.d)
                /\ exc.info.got = r

C9_Witness ==
    /\ Len(validated) = 1
    /\ validated[1].result.py = "dict"
    /\ DOMAIN validated[1].result.d = {"start"}
    /\ validated[1].result.d["start"] = BadStr
    /\ validated[1].raises.kind = MsgMissingKeys
    /\ validated[1].raises.info.keys = <<"end", "summary">>

(***************************************************************************)
(* C10: for a reply with all three required keys whose start or end is not *)
(* an ISO-8601 date-time string (null and numbers included),               *)
(* validate_llm_result raises the SchedulingError "invalid datetime"       *)
(* naming that field and echoing its raw value; when both are bad it names *)
(* start.                                                                  *)
(***************************************************************************)
C10_InvalidDatetime ==
    \A j \in 1..Len(validated) :
        LET r == validated[j].result
            exc == validated[j].raises
        IN  (/\ r.py = "dict"
             /\ REQUIRED_KEYS \subseteq DOMAIN r.d
             /\ ~(Parseable(r.d["start"]) /\ Parseable(r.d["end"]))) =>
                /\ exc.type = "SchedulingError"
                /\ exc.kind = MsgInvalidDatetime
                /\ exc.info.key = IF ~Parseable(r.d["start"]) THEN "start" ELSE "end"
                /\ exc.info.value = r.d[exc.info.key]

C10_Witness ==
    /\ Len(validated) = 1
    /\ validated[1].result.py = "dict"
    /\ REQUIRED_KEYS \subseteq DOMAIN validated[1].result.d
    /\ validated[1].result.d["start"] = JsonNull
    /\ validated[1].result.d["end"] = BadStr
    /\ validated[1].raises.kind = MsgInvalidDatetime
    /\ validated[1].raises.info.key = "start"

(***************************************************************************)
(* C11: for a reply whose start and end both parse (and are comparable),   *)
(* with the parsed end earlier than or equal to the parsed start,          *)
(* validate_llm_result raises the SchedulingError "end time ... not after  *)
(* the start time" carrying both original strings verbatim; equal instants *)
(* are rejected.                                                           *)
(***************************************************************************)
\* the instant a date-time string denotes, in hours (UTC when it has an offset)
Instant(value) == IF value.aware THEN value.hour - value.off ELSE value.hour

Comparable(r) ==
    /\ r.py = "dict"
    /\ REQUIRED_KEYS \subseteq DOMAIN r.d
    /\ Parseable(r.d["start"]) /\ Parseable(r.d["end"])
    /\ r.d["start"].aware = r.d["end"].aware

C18_ScheduleText ==
    \A i \in CallsOf("chain.invoke") :
        LET text == calls[i].schedule
        IN  IF Len(current_schedule) = 0
            THEN /\ Len(text) = 1
                 /\ Len(text[1]) = 1
                 /\ text[1][1] = "  (No events scheduled)"
            ELSE /\ Len(text) = Len(current_schedule)
                 /\ \A k \in 1..Len(text) :
                       /\ Len(text[k]) = 6
                       /\ text[k][2] = current_schedule[k].summary
                       /\ text[k][3] = ": "
                       /\ text[k][4] = current_schedule[k].start
                       /\ text[k][5] = " → "
                       /\ text[k][6] = current_schedule[k].end

C18_Witness ==
    /\ CallsOf("chain.invoke") # {}
    /\ current_schedule = <<Event1, Event2>>
    /\ Len(calls[2].schedule) = 2

C18_WitnessEmpty ==
    /\ CallsOf("chain.invoke") # {}
    /\ current_schedule = <<>>
    /\ Len(calls[2].schedule) = 1

(***************************************************************************)
(* C19: the window get_schedule queries has timeMax strictly later than    *)
(* timeMin, for any days_ahead.                                            *)
(***************************************************************************)
C19_WindowNotEmpty ==
    \A i \in CallsOf("get_schedule") : calls[i].timeMax > calls[i].timeMin

(***************************************************************************)
(* Helpers of the front ends' properties.                                  *)
(***************************************************************************)
FromSlack == caller \in {"handle_dm", "handle_mention"}

PastMiddleware == fpc \in {"handle_dm", "handle_mention", "awaiting", "finished"}

(***************************************************************************)
(* C13: the Slack app calls schedule_task only for events whose sender's   *)
(* user id is in the allowlist; an event of a user outside the allowlist   *)
(* or without user id triggers no scheduling.                              *)
(***************************************************************************)
C13_OnlyAllowedSchedule ==
    FromSlack => event.user \in allowed_users

(***************************************************************************)
(* C14: authorize_user calls next exactly once for an event whose user id  *)
(* is in the allowlist; for a user id that is present and not in the       *)
(* allowlist it never calls next and logs exactly one warning; it never    *)
(* calls next more than once.                                              *)
(***************************************************************************)
C14_MiddlewareNext ==
    (PastMiddleware /\ caller # "cli") =>
        /\ nextCalls <= 1
        /\ event.user \in allowed_users => nextCalls = 1 /\ warnings = 0
        /\ (event.user # NoUser /\ event.user \notin allowed_users) =>
              /\ nextCalls = 0
              /\ warnings = 1
              /\ fpc = "finished"
              /\ caller = "none"
              /\ said = <<>>

C14_Witness ==
    /\ fpc = "finished"
    /\ event.payload = "event"
    /\ event.user = "U9"
    /\ event.text = <<"write docs">>
    /\ warnings = 1
    /\ nextCalls = 0

(***************************************************************************)
(* C15: in handle_dm and handle_mention whatever schedule_task raises is   *)
(* caught: a SchedulingError is answered with one message carrying its     *)
(* text, any other exception with one generic message, and nothing leaves  *)
(* the handler; a success is answered with one message rendering title,    *)
(* start, end and reasoning.  (The acknowledgement "On it" precedes it.)   *)
(***************************************************************************)
C15_HandlerCatchesAll ==
    (FromSlack /\ fpc = "finished") =>
        /\ propagated = NoExc
        /\ Len(said) = 2
        /\ said[1] = OnIt
        /\ returned.done =>
              /\ said[2].kind = "scheduled!"
              /\ said[2].title = result.d["summary"]
              /\ said[2].start = result.d["start"]
              /\ said[2].end = result.d["end"]
              /\ said[2].reason = IF "reasoning" \in DOMAIN result.d
                                  THEN result.d["reasoning"] ELSE Text("N/A")
        /\ (~returned.done /\ raised.type = "SchedulingError") =>
              /\ said[2].kind = "Couldn't schedule that"
              /\ said[2].msg.text = raised.kind
              /\ said[2].msg.info = raised.info
        /\ (~returned.done /\ raised.type # "SchedulingError") =>
              said[2].kind = "Something went wrong. Check the Ghost's logs."

C15_Witness ==
    /\ FromSlack
    /\ fpc = "finished"
    /\ raised.type = "AttributeError"
    /\ Len(said) = 2

(***************************************************************************)
(* C16: when schedule_task fails under the command line, no unhandled      *)
(* exception leaves the command line's call.                               *)
(***************************************************************************)
C16_CliCatches ==
    (caller = "cli" /\ fpc = "finished") => propagated = NoExc

(***************************************************************************)
(* C17: the text a Slack handler passes to schedule_task is the message's  *)
(* text with a leading "<@BOTID>" removed and white space stripped.        *)
(***************************************************************************)
WithoutLeadingMention(s) ==
    IF Len(s) >= 2 /\ s[1] = MENTION /\ s[2] = GT
    THEN SubSeq(s, 3, Len(s)) ELSE s

C17_TaskText ==
    FromSlack =>
        task_description = Join(Strip(WithoutLeadingMention(Strip(event.text))))

(***************************************************************************)
(* C20: interleaved schedule_task runs are independent: no run reads or    *)
(* overwrites state another run wrote; in particular the keyring is not    *)
(* mutated state shared between the runs.                                  *)
(***************************************************************************)
C20_NoSharedState == conflicts = {}

\* C20, as the code has it: the only state a run reads or overwrites after
\* another run wrote it is the keyring's OAuth token entry, which a run
\* writes only after it refreshed the token or completed the OAuth flow;
\* the client credentials entry is never written by a run.
InFlight(r) == run[r].pc \notin {"idle", "done"}

C20_OnlyTokenShared ==
    /\ \A c \in conflicts : c.key = KEYRING_TOKEN_KEY
    /\ keyring[KEYRING_CREDENTIALS_KEY].writer = Stored
    /\ \A r \in Runs :
          keyring[KEYRING_TOKEN_KEY].writer = r => run[r].renewed

C20_Witness ==
    /\ [kind |-> "read", key |-> KEYRING_TOKEN_KEY] \in conflicts
    /\ [kind |-> "overwrite", key |-> KEYRING_TOKEN_KEY] \in conflicts
    /\ \A r \in Runs : InFlight(r)

(***************************************************************************)
(* C21: create_app raises RuntimeError when the bot token is absent, and   *)
(* when the bot token is present but the stored allowlist is absent or     *)
(* empty; in both cases no App is constructed and no handler registered,   *)
(* so an App never exists with an empty allowlist.                         *)
(***************************************************************************)
CreateAppDone == app.pc = "done"

\* the allowlist entry is absent, the empty str, or an empty JSON list
AllowlistEmpty(raw) == Not(raw) \/ raw.chars = <<LBRACKET, RBRACKET>>

NothingBuilt == ~app.constructed /\ app.registered = {}

C21_CreateAppRaises ==
    /\ (CreateAppDone /\ Not(app.bot_token)) =>
           app.raised = RuntimeError(MsgNoBotToken) /\ NothingBuilt
    /\ (CreateAppDone /\ ~Not(app.bot_token) /\ AllowlistEmpty(app.raw)) =>
           app.raised = RuntimeError(MsgNoAllowedUsers) /\ NothingBuilt
    /\ (app.constructed \/ app.registered # {}) => app.allowed_users # {}

C21_Witness ==
    /\ CreateAppDone
    /\ ~Not(app.bot_token)
    /\ app.raw = Str(<<LBRACKET, RBRACKET>>)
    /\ app.raised = RuntimeError(MsgNoAllowedUsers)

(***************************************************************************)
(* C22: get_calendar_service writes the keyring only after it refreshed    *)
(* an expired token or completed an OAuth flow; with a valid stored token  *)
(* it builds the service from that token, starts no refresh and no flow    *)
(* and writes nothing; with no usable token and no client credentials it   *)
(* raises RuntimeError, builds no service and writes nothing.              *)
(***************************************************************************)
Unusable == {"none", "stale"}

====
